---- MODULE Spec2Model ----
(***************************************************************************)
(* Model of scripts/db/init.js: a Node.js script that opens animals.db     *)
(* with the sqlite3 client, issues one CREATE TABLE, three INSERTs, two    *)
(* SELECTs, one UPDATE, one DELETE and a close, each with its own          *)
(* completion callback.                                                    *)
(*                                                                         *)
(* The script never calls db.serialize(), so the client runs in its        *)
(* default (parallel) mode:                                                *)
(*   - calls made before the handle is open are queued on the handle;      *)
(*   - once the open succeeds the queue is drained: every statement is     *)
(*     handed to the worker pool (prepare and step), in no fixed order     *)
(*     relative to the others;                                             *)
(*   - close is exclusive: it leaves the queue only when no statement is   *)
(*     pending, and nothing leaves the queue while it runs;                *)
(*   - when the open fails the queue is never drained.                     *)
(* Callbacks run on the JavaScript thread, hence only after the top-level  *)
(* script has run to completion.                                           *)
(*                                                                         *)
(* The store file (tables, rows, AUTOINCREMENT sequence) survives the      *)
(* process: ReRun starts the script again against the file left behind.    *)
(* I/O faults of individual statements (disk full, lock contention) are    *)
(* outside the model; the open may fail, and a statement fails when it is  *)
(* prepared while its table does not exist.                                *)
(***************************************************************************)
EXTENDS Integers, Sequences, FiniteSets, TLC

\* Number of times the script is run against the same store file.
MaxRuns == 2

VARIABLES
    run,      \* which run of the script this is (1..MaxRuns)
    pc,       \* index into Script of the next call the script issues
    tables,   \* store file: names of the tables in the schema
    rows,     \* store file: the records of Animals, in rowid order
    seq,      \* store file: sqlite_sequence value of Animals (largest id ever given)
    dbState,  \* the handle: "new", "opening", "open", "failed", "closed"
    queue,    \* calls queued on the handle, oldest first
    pending,  \* statements handed to the worker pool and not yet finalized
    locked,   \* an exclusive call (close) holds the handle
    st,       \* per call: "unissued", "queued", "running" (with the workers),
              \*           "closing", "done"
    res,      \* per call: what the engine hands to the callback
    diag,     \* per call: number of console.error reports of its callback
    info      \* per call: number of console.log reports of its callback

vars == <<run, pc, tables, rows, seq, dbState, queue, pending, locked, st, res, diag, info>>

store == <<tables, rows, seq>>

----------------------------------------------------------------------------
\* The calls of the script, in the order the source issues them.
Script == <<"open", "create", "insElephant", "insTurtle", "insDog",
            "all", "overFifty", "update", "delete", "close">>

Calls == {Script[i] : i \in 1..Len(Script)}

\* The statements: every call that goes through db.run / db.all.
Statements == Calls \ {"open", "close"}

Inserts == {"insElephant", "insTurtle", "insDog"}

\* Bound parameters of the three INSERTs (name, habitat, life_expectancy, in_danger).
InsertParams(s) ==
    CASE s = "insElephant" -> [name |-> "Elephant", habitat |-> "Savannah",
                               life_expectancy |-> 60, in_danger |-> 1]
      [] s = "insTurtle"   -> [name |-> "Turtle", habitat |-> "Ocean",
                               life_expectancy |-> 100, in_danger |-> 0]
      [] s = "insDog"      -> [name |-> "Dog", habitat |-> "Domestic",
                               life_expectancy |-> 13, in_danger |-> 0]

NoResult == [err |-> FALSE, lastID |-> 0, changes |-> 0, rows |-> <<>>]

\* Variant: completion callbacks are delivered as soon as the first call has
\* been issued, while the script is still issuing the others.
ScriptStarted == pc > 1

\* The top-level script has run to completion: only then does the event loop
\* deliver any completion callback.
ScriptFinished == pc = Len(Script) + 1

----------------------------------------------------------------------------
\* SQL, as the engine evaluates it on the store.

TableExists(tbls) == \E i \in 1..Len(tbls) : tbls[i] = "Animals"

\* Variant: CREATE TABLE Animals (...), which adds the table whether or not
\* it exists.
CreateTable(tbls) == Append(tbls, "Animals")

\* CREATE TABLE IF NOT EXISTS Animals (...)
CreateTableIfNotExists(tbls) ==
    IF TableExists(tbls) THEN tbls ELSE Append(tbls, "Animals")

MaxOf(S) == IF S = {} THEN 0 ELSE CHOOSE m \in S : \A x \in S : x <= m

\* Variant: the identifier is the number of records plus one, so an
\* identifier freed by a delete is given again.
NextIdByCount(rs, sq) == Len(rs) + 1

\* id INTEGER PRIMARY KEY AUTOINCREMENT: one more than the largest id ever used.
NextId(rs, sq) == MaxOf({sq} \cup {rs[i].id : i \in 1..Len(rs)}) + 1

\* INSERT INTO Animals (name, habitat, life_expectancy, in_danger) VALUES (?, ?, ?, ?)
InsertRow(rs, sq, p) ==
    Append(rs, [id |-> NextId(rs, sq), name |-> p.name, habitat |-> p.habitat,
                life_expectancy |-> p.life_expectancy, in_danger |-> p.in_danger])

\* SELECT * FROM Animals
SelectAll(rs) == rs

LifeOver(r, n) == r.life_expectancy > n

\* SELECT * FROM Animals WHERE life_expectancy > ?
SelectLifeOver(rs, n) ==
    LET Keep(r) == LifeOver(r, n) IN SelectSeq(rs, Keep)

Matching(rs, name) == {i \in 1..Len(rs) : rs[i].name = name}

\* UPDATE Animals SET in_danger = ? WHERE name = ?
UpdateInDanger(rs, flag, name) ==
    [i \in 1..Len(rs) |->
        IF rs[i].name = name THEN [rs[i] EXCEPT !.in_danger = flag] ELSE rs[i]]

\* DELETE FROM Animals WHERE name = ?
DeleteByName(rs, name) ==
    LET Keep(r) == r.name # name IN SelectSeq(rs, Keep)

----------------------------------------------------------------------------
\* The handle's queue.

IsExclusive(c) == c = "close"

\* Variant: an exclusive call leaves the queue without waiting for the
\* pending statements.
RECURSIVE ProcessNoWait(_)
ProcessNoWait(h) ==
    IF h.queue = <<>> \/ (h.locked /\ h.pending # 0)
    THEN h
    ELSE LET c == Head(h.queue) IN
         IF IsExclusive(c)
         THEN [h EXCEPT !.queue = Tail(h.queue), !.locked = TRUE,
                        !.st[c] = "closing"]
         ELSE ProcessNoWait([h EXCEPT !.queue = Tail(h.queue), !.locked = FALSE,
                                      !.pending = h.pending + 1,
                                      !.st[c] = "running"])

\* Database::Process: drain the queue while the handle is open; an exclusive
\* call waits until nothing is pending and then holds the handle.
RECURSIVE Process(_)
Process(h) ==
    IF h.queue = <<>> \/ (h.locked /\ h.pending # 0)
    THEN h
    ELSE LET c == Head(h.queue) IN
         IF IsExclusive(c) /\ h.pending > 0
         THEN h
         ELSE IF IsExclusive(c)
              THEN [h EXCEPT !.queue = Tail(h.queue), !.locked = TRUE,
                             !.st[c] = "closing"]
              ELSE Process([h EXCEPT !.queue = Tail(h.queue), !.locked = FALSE,
                                     !.pending = h.pending + 1,
                                     !.st[c] = "running"])

Handle == [queue |-> queue, pending |-> pending, locked |-> locked, st |-> st]

SetHandle(h) ==
    /\ queue' = h.queue
    /\ pending' = h.pending
    /\ locked' = h.locked
    /\ st' = h.st

\* Database::Schedule: a call made while the handle is not open, or is held,
\* is queued; otherwise it starts at once.
Schedule(c) ==
    IF dbState # "open" \/ locked
    THEN SetHandle([Handle EXCEPT !.queue = Append(queue, c), !.st[c] = "queued"])
    ELSE SetHandle(Process([Handle EXCEPT !.queue = Append(queue, c),
                                          !.st[c] = "queued"]))

\* Variant: a callback without the return, which goes on to report success
\* after it has reported the error.
ReportBoth(c, err) ==
    /\ diag' = [diag EXCEPT ![c] = IF err THEN @ + 1 ELSE @]
    /\ info' = [info EXCEPT ![c] = @ + 1]

\* A callback of the script: if (err) return console.error(...); console.log(...)
Report(c, err) ==
    /\ diag' = [diag EXCEPT ![c] = IF err THEN @ + 1 ELSE @]
    /\ info' = [info EXCEPT ![c] = IF err THEN @ ELSE @ + 1]

----------------------------------------------------------------------------
\* The script: each call is issued as soon as the previous call has returned.

Issue(c) ==
    /\ pc <= Len(Script)
    /\ Script[pc] = c
    /\ pc' = pc + 1

NewDatabase ==
    /\ Issue("open")
    /\ dbState' = "opening"
    /\ st' = [st EXCEPT !["open"] = "queued"]
    /\ UNCHANGED <<run, store, queue, pending, locked, res, diag, info>>

RunCreateTable ==
    /\ Issue("create")
    /\ Schedule("create")
    /\ UNCHANGED <<run, store, dbState, res, diag, info>>

RunInsert(s) ==
    /\ s \in Inserts
    /\ Issue(s)
    /\ Schedule(s)
    /\ UNCHANGED <<run, store, dbState, res, diag, info>>

AllAnimals ==
    /\ Issue("all")
    /\ Schedule("all")
    /\ UNCHANGED <<run, store, dbState, res, diag, info>>

AllOverFifty ==
    /\ Issue("overFifty")
    /\ Schedule("overFifty")
    /\ UNCHANGED <<run, store, dbState, res, diag, info>>

RunUpdate ==
    /\ Issue("update")
    /\ Schedule("update")
    /\ UNCHANGED <<run, store, dbState, res, diag, info>>

RunDelete ==
    /\ Issue("delete")
    /\ Schedule("delete")
    /\ UNCHANGED <<run, store, dbState, res, diag, info>>

Close ==
    /\ Issue("close")
    /\ Schedule("close")
    /\ UNCHANGED <<run, store, dbState, res, diag, info>>

----------------------------------------------------------------------------
\* The engine.

\* Variant: the queue is drained when the open completes, whether it
\* succeeded or not.
OpenDoneDrainsAnyway(ok) ==
    /\ ScriptFinished
    /\ dbState = "opening"
    /\ Report("open", ~ok)
    /\ res' = [res EXCEPT !["open"] = [NoResult EXCEPT !.err = ~ok]]
    /\ dbState' = IF ok THEN "open" ELSE "failed"
    /\ SetHandle(Process([Handle EXCEPT !.st["open"] = "done"]))
    /\ UNCHANGED <<run, pc, store>>

\* The open completes and its callback runs. On success the queue is drained;
\* on failure the handle stays unusable and the queue is left as it is.
OpenDone(ok) ==
    /\ ScriptFinished
    /\ dbState = "opening"
    /\ Report("open", ~ok)
    /\ res' = [res EXCEPT !["open"] = [NoResult EXCEPT !.err = ~ok]]
    /\ IF ok
       THEN /\ dbState' = "open"
            /\ SetHandle(Process([Handle EXCEPT !.st["open"] = "done"]))
       ELSE /\ dbState' = "failed"
            /\ SetHandle([Handle EXCEPT !.st["open"] = "done"])
    /\ UNCHANGED <<run, pc, store>>

\* Statement s runs to completion: a worker prepares s against the schema as
\* it is now and steps it on the store; the callback of s then runs with the
\* result, and s is finalized, which releases the handle and drains the queue
\* again. Every statement but the CREATE needs the table; without it the
\* prepare fails (SQLITE_ERROR: no such table), the store is left alone and
\* the error goes to the callback.
\* One action per statement: the table is never dropped, so a statement
\* prepared earlier than it is stepped behaves as one prepared at the moment
\* it is stepped; and the callback writes to the console only, while the
\* pending count it releases is read by nothing but the queued close.
NoSuchTable(s) == s # "create" /\ ~TableExists(tables)

Finalize(s) ==
    SetHandle(Process([Handle EXCEPT !.st[s] = "done", !.pending = pending - 1]))

Complete(s, r) ==
    /\ ScriptFinished
    /\ res' = [res EXCEPT ![s] = r]
    /\ Report(s, r.err)
    /\ Finalize(s)
    /\ UNCHANGED <<run, pc, dbState>>

Fails(s) ==
    /\ Complete(s, [NoResult EXCEPT !.err = TRUE])
    /\ UNCHANGED store

StepCreate ==
    /\ st["create"] = "running"
    /\ tables' = CreateTableIfNotExists(tables)
    /\ Complete("create", NoResult)
    /\ UNCHANGED <<rows, seq>>

StepInsert(s) ==
    /\ s \in Inserts
    /\ st[s] = "running"
    /\ IF NoSuchTable(s)
       THEN Fails(s)
       ELSE /\ rows' = InsertRow(rows, seq, InsertParams(s))
            /\ seq' = NextId(rows, seq)
            /\ Complete(s, [NoResult EXCEPT !.lastID = NextId(rows, seq),
                                            !.changes = 1])
            /\ UNCHANGED tables

StepAll ==
    /\ st["all"] = "running"
    /\ IF NoSuchTable("all")
       THEN Fails("all")
       ELSE /\ Complete("all", [NoResult EXCEPT !.rows = SelectAll(rows)])
            /\ UNCHANGED store

StepOverFifty ==
    /\ st["overFifty"] = "running"
    /\ IF NoSuchTable("overFifty")
       THEN Fails("overFifty")
       ELSE /\ Complete("overFifty",
                        [NoResult EXCEPT !.rows = SelectLifeOver(rows, 50)])
            /\ UNCHANGED store

StepUpdate ==
    /\ st["update"] = "running"
    /\ IF NoSuchTable("update")
       THEN Fails("update")
       ELSE /\ rows' = UpdateInDanger(rows, 1, "Dog")
            /\ Complete("update",
                   [NoResult EXCEPT !.changes = Cardinality(Matching(rows, "Dog"))])
            /\ UNCHANGED <<tables, seq>>

StepDelete ==
    /\ st["delete"] = "running"
    /\ IF NoSuchTable("delete")
       THEN Fails("delete")
       ELSE /\ rows' = DeleteByName(rows, "Dog")
            /\ Complete("delete",
                   [NoResult EXCEPT !.changes = Cardinality(Matching(rows, "Dog"))])
            /\ UNCHANGED <<tables, seq>>

\* The close, having left the queue, releases the connection; its callback runs.
CloseDone ==
    /\ ScriptFinished
    /\ st["close"] = "closing"
    /\ dbState = "open"
    /\ dbState' = "closed"
    /\ Report("close", FALSE)
    /\ res' = [res EXCEPT !["close"] = NoResult]
    /\ SetHandle([Handle EXCEPT !.st["close"] = "done", !.locked = FALSE])
    /\ UNCHANGED <<run, pc, store>>

\* The process has nothing left to do and exits.
Exited == ScriptFinished /\ dbState \in {"failed", "closed"}

\* The script is started again; only the store file is carried over.
ReRun ==
    /\ Exited
    /\ run < MaxRuns
    /\ run' = run + 1
    /\ pc' = 1
    /\ dbState' = "new"
    /\ queue' = <<>>
    /\ pending' = 0
    /\ locked' = FALSE
    /\ st' = [c \in Calls |-> "unissued"]
    /\ res' = [c \in Calls |-> NoResult]
    /\ diag' = [c \in Calls |-> 0]
    /\ info' = [c \in Calls |-> 0]
    /\ UNCHANGED store

----------------------------------------------------------------------------
Init ==
    /\ run = 1
    /\ pc = 1
    /\ tables = <<>>
    /\ rows = <<>>
    /\ seq = 0
    /\ dbState = "new"
    /\ queue = <<>>
    /\ pending = 0
    /\ locked = FALSE
    /\ st = [c \in Calls |-> "unissued"]
    /\ res = [c \in Calls |-> NoResult]
    /\ diag = [c \in Calls |-> 0]
    /\ info = [c \in Calls |-> 0]

Next ==
    \/ NewDatabase
    \/ RunCreateTable
    \/ \E s \in Inserts : RunInsert(s)
    \/ AllAnimals
    \/ AllOverFifty
    \/ RunUpdate
    \/ RunDelete
    \/ Close
    \/ \E ok \in BOOLEAN : OpenDone(ok)
    \/ StepCreate
    \/ \E s \in Inserts : StepInsert(s)
    \/ StepAll
    \/ StepOverFifty
    \/ StepUpdate
    \/ StepDelete
    \/ CloseDone
    \/ ReRun

Spec == Init /\ [][Next]_vars

----------------------------------------------------------------------------
\* What the claims speak of.

Reports(c) == diag[c] + info[c]

\* A record without its identifier.
Fields(r) == [name |-> r.name, habitat |-> r.habitat,
              life_expectancy |-> r.life_expectancy, in_danger |-> r.in_danger]

FieldsOf(rs) == {Fields(rs[i]) : i \in 1..Len(rs)}

IdsUnique(rs) == \A i, j \in 1..Len(rs) : rs[i].id = rs[j].id => i = j

Dogs(rs) == {i \in 1..Len(rs) : rs[i].name = "Dog"}

\* C1: once the query-all step has reported, it has reported exactly three
\* records, the three literal inputs, with pairwise distinct identifiers.
C1_AllReportsTheThree ==
    st["all"] = "done" =>
        /\ info["all"] = 1
        /\ Len(res["all"].rows) = 3
        /\ FieldsOf(res["all"].rows) = {InsertParams(s) : s \in Inserts}
        /\ IdsUnique(res["all"].rows)

\* C2: once the delete step has completed, it has reported one affected row
\* and the store holds no record named Dog.
C2_DeleteRemovesTheDog ==
    st["delete"] = "done" =>
        /\ info["delete"] = 1
        /\ res["delete"].changes = 1
        /\ Dogs(rows) = {}

\* C3: once the update step has completed, it has reported one affected row
\* and no record named Dog has in_danger other than 1.
C3_UpdateMarksTheDog ==
    st["update"] = "done" =>
        /\ info["update"] = 1
        /\ res["update"].changes = 1
        /\ \A i \in Dogs(rows) : rows[i].in_danger = 1

C5_OverFiftyReportsTwo ==
    st["overFifty"] = "done" =>
        /\ info["overFifty"] = 1
        /\ Len(res["overFifty"].rows) = 2
        /\ FieldsOf(res["overFifty"].rows) =
               {InsertParams("insElephant"), InsertParams("insTurtle")}

\* C6: the schema never holds Animals twice, and a CREATE TABLE IF NOT EXISTS
\* that completes while the table exists reports success and leaves the
\* schema, every record and the identifier sequence as they were.
AnimalsTables(tbls) == {i \in 1..Len(tbls) : tbls[i] = "Animals"}

CreateCompletes == st["create"] = "running" /\ st'["create"] = "done"

C6_SchemaEnsureIdempotent ==
    /\ [](Cardinality(AnimalsTables(tables)) <= 1)
    /\ [][(CreateCompletes /\ TableExists(tables)) =>
              /\ tables' = tables
              /\ rows' = rows
              /\ seq' = seq
              /\ info'["create"] = 1
              /\ diag'["create"] = 0]_vars

\* The CREATE of a later run has completed on a store that already holds the
\* records of an earlier run, before any insert of this run.
C6_Witness ==
    /\ run > 1
    /\ info["create"] = 1
    /\ rows # <<>>
    /\ \A s \in Inserts : st[s] = "running"

C8_NoUseAfterOpenFailure ==
    /\ [](dbState = "failed" =>
            /\ diag["open"] = 1
            /\ info["open"] = 0
            /\ \A c \in Calls \ {"open"} : st[c] = "queued" /\ Reports(c) = 0)
    /\ [][dbState = "failed" => UNCHANGED store]_vars

\* The open has failed on a store that holds records, with all nine calls queued.
C8_Witness ==
    /\ dbState = "failed"
    /\ rows # <<>>
    /\ Len(queue) = Len(Script) - 1

\* C9: identifiers are pairwise distinct in every state; no step changes the
\* id, name, habitat or life_expectancy of a record that stays in the store;
\* a new record gets an identifier larger than any given before; and the
\* update step keeps every record in place, changing nothing but the
\* in_danger field of records named Dog, which it sets to 1.
SameButInDanger(r, q) ==
    /\ r.id = q.id
    /\ r.name = q.name
    /\ r.habitat = q.habitat
    /\ r.life_expectancy = q.life_expectancy

UpdateCompletes == st["update"] = "running" /\ st'["update"] = "done"

C9_IdentifiersStable ==
    /\ [](IdsUnique(rows))
    /\ [][/\ \A i \in 1..Len(rows), j \in 1..Len(rows') :
                rows[i].id = rows'[j].id => SameButInDanger(rows[i], rows'[j])
          /\ \A j \in 1..Len(rows') :
                (\A i \in 1..Len(rows) : rows[i].id # rows'[j].id) =>
                    rows'[j].id > seq
          /\ UpdateCompletes =>
                /\ Len(rows') = Len(rows)
                /\ \A i \in 1..Len(rows) :
                      /\ SameButInDanger(rows[i], rows'[i])
                      /\ rows'[i].in_danger =
                            IF rows[i].name = "Dog" THEN 1 ELSE rows[i].in_danger
          /\ ~UpdateCompletes =>
                \A i \in 1..Len(rows), j \in 1..Len(rows') :
                    rows[i].id = rows'[j].id => rows[i] = rows'[j]]_vars

\* The update has changed a Dog that sits among other records, after an
\* earlier record had been deleted.
C9_Witness ==
    /\ st["update"] = "done"
    /\ res["update"].changes >= 1
    /\ Len(rows) >= 3
    /\ \E i \in Dogs(rows) : rows[i].in_danger = 1
    /\ seq > Len(rows)

\* C10: whenever a callback has run, the script has already issued every one
\* of its calls.
C10_AllIssuedBeforeAnyCallback ==
    (\E c \in Calls : Reports(c) > 0) => \A c \in Calls : st[c] # "unissued"

\* The delete, issued last of the statements, has completed while the CREATE,
\* issued first, has not.
C10_Witness ==
    /\ Reports("delete") = 1
    /\ st["create"] = "running"

====
